---- MODULE Spec2Model ----
(***************************************************************************)
(* A model of the financial_analyst notebook: four cells (Extractor,       *)
(* Chunker, Indexer, Query Engine) that communicate through three files on *)
(* disk, and of the library calls the cells make (the recursive character  *)
(* text splitter, the flat vector index search).                           *)
(*                                                                         *)
(* Text is a sequence of one-character strings.                            *)
(***************************************************************************)
EXTENDS Integers, Sequences, FiniteSets, TLC

VARIABLES
    \* the files of the workspace
    pdf,          \* the document at pdf_path
    text_file,    \* extracted_report_text.txt
    chunks_file,  \* report_chunks.pkl
    faiss_index,  \* the faiss_index directory
    \* the notebook kernel
    pc,           \* the statement the running cell is at ("idle": no cell runs)
    cell,         \* the cell that runs, or ran last
    out,          \* what the cell has printed since it started
    full_text,    \* kernel variable full_text
    page_num,     \* the number of pages the Extractor's loop has done
    chunks,       \* kernel variable chunks
    vectorstore,  \* kernel variable vectorstore
    result,       \* kernel variable result
    embedding,    \* the function the embedding model computes
    \* bookkeeping of the runs
    pre,          \* the files as they were when the cell started
    reported,     \* the cells that have printed their success message
    runs,         \* the number of cell runs started
    replaced,     \* the number of times the user replaced the document
    \* the splitter on its own
    c_text,       \* the text handed to split_text
    c_size,       \* chunk_size of the splitter
    c_overlap,    \* chunk_overlap of the splitter
    c_chunks,     \* the list split_text returned
    c_done        \* split_text has returned

files == <<pdf, text_file, chunks_file, faiss_index>>
kernel == <<full_text, page_num, chunks, vectorstore, result>>
pvars == <<pdf, text_file, chunks_file, faiss_index, pc, cell, out, full_text,
           page_num, chunks, vectorstore, result, embedding, pre, reported,
           runs, replaced>>
cvars == <<c_text, c_size, c_overlap, c_chunks, c_done>>

vars == <<pvars, cvars>>

(***************************************************************************)
(* Bounds of the model.                                                    *)
(***************************************************************************)
MaxTextLen == 5
MaxChunkSize == 4
MaxPages == 2
MaxRuns == 5
MaxReplace == 1
MaxCoord == 2
MaxIndex == 4
MaxSources == 3

ScenarioPatterns == 6
ScenarioCuts == 23
ScenarioParagraphs == 5

(***************************************************************************)
(* The notebook's configuration cells.                                     *)
(***************************************************************************)
pdf_path == "NASDAQ_AAPL_2024.pdf"
output_text_file == "extracted_report_text.txt"
input_text_file == "extracted_report_text.txt"
output_chunks_file == "report_chunks.pkl"
chunk_size == 1000
chunk_overlap == 200
input_chunks_file == "report_chunks.pkl"
faiss_index_path == "faiss_index"
retriever_k == 3
question == <<"q">>

(***************************************************************************)
(* Loops.  A Python "for i in range(lo, hi + 1): st = Step(st, i)" is the  *)
(* left fold of Step over lo..hi.  Each loop below is written as such a    *)
(* fold, halving the range so that the depth of the recursion is           *)
(* logarithmic in the number of iterations; the left half is evaluated     *)
(* before the right half starts from its result.                           *)
(***************************************************************************)

(***************************************************************************)
(* The text splitter (RecursiveCharacterTextSplitter with its defaults:    *)
(* separators "\n\n", "\n", " ", "", keep_separator = True,                *)
(* strip_whitespace = True, length_function = len).                        *)
(***************************************************************************)
Whitespace == {" ", "\n"}

DefaultSeparators == << <<"\n", "\n">>, <<"\n">>, <<" ">>, <<>> >>

\* str.strip(): the text without its leading and trailing whitespace
Strip(s) ==
    IF \A i \in 1..Len(s) : s[i] \in Whitespace THEN <<>>
    ELSE LET first == CHOOSE i \in 1..Len(s) :
                          /\ s[i] \notin Whitespace
                          /\ \A j \in 1..(i - 1) : s[j] \in Whitespace
             last  == CHOOSE i \in 1..Len(s) :
                          /\ s[i] \notin Whitespace
                          /\ \A j \in (i + 1)..Len(s) : s[j] \in Whitespace
         IN  SubSeq(s, first, last)

\* "".join(docs[lo..hi]) appended to acc
RECURSIVE ConcatLoop(_, _, _, _)
ConcatLoop(docs, acc, lo, hi) ==
    IF lo > hi THEN acc
    ELSE IF lo = hi THEN acc \o docs[lo]
    ELSE LET mid == (lo + hi) \div 2
         IN  CHOOSE r \in {ConcatLoop(docs, left, mid + 1, hi) :
                              left \in {ConcatLoop(docs, acc, lo, mid)}} : TRUE

\* "".join(docs)
Concat(docs) == ConcatLoop(docs, <<>>, 1, Len(docs))

\* _join_docs: the joined pieces, stripped; <<>> stands for None
JoinDocs(docs) == Strip(Concat(docs))

\* sep occurs in text at position i
MatchAt(text, sep, i) ==
    /\ i + Len(sep) - 1 <= Len(text)
    /\ \A k \in 1..Len(sep) : text[i + k - 1] = sep[k]

\* re.search(sep, text)
Found(text, sep) == \E i \in 1..Len(text) : MatchAt(text, sep, i)

\* re.split scanning position i: inside a match (skip > 0) it moves on; at
\* a match it closes the piece begun at start and begins the next piece
\* with the separator; elsewhere it moves on
SplitStep(text, sep, st, i) ==
    IF st.skip > 0 THEN [st EXCEPT !.skip = st.skip - 1]
    ELSE IF MatchAt(text, sep, i)
         THEN [pieces |-> IF i > st.start
                          THEN Append(st.pieces, SubSeq(text, st.start, i - 1))
                          ELSE st.pieces,
               start  |-> i,
               skip   |-> Len(sep) - 1]
         ELSE st

RECURSIVE SplitLoop(_, _, _, _, _)
SplitLoop(text, sep, st, lo, hi) ==
    IF lo > hi THEN st
    ELSE IF lo = hi THEN SplitStep(text, sep, st, lo)
    ELSE LET mid == (lo + hi) \div 2
         IN  CHOOSE r \in {SplitLoop(text, sep, left, mid + 1, hi) :
                              left \in {SplitLoop(text, sep, st, lo, mid)}} : TRUE

\* _split_text_with_regex with keep_separator = True: the text cut before
\* every (leftmost, non-overlapping) occurrence of sep, each separator kept
\* at the start of the piece that follows it; empty pieces dropped.  With
\* the empty separator: the list of the characters.
SplitOn(text, sep) ==
    IF sep = <<>> THEN [i \in 1..Len(text) |-> <<text[i]>>]
    ELSE LET end == SplitLoop(text, sep, [pieces |-> <<>>, start |-> 1, skip |-> 0],
                              1, Len(text))
         IN  IF end.start <= Len(text)
             THEN Append(end.pieces, SubSeq(text, end.start, Len(text)))
             ELSE end.pieces

\* (mutant) the comparison with the overlap is off by one
PopStepStrict(p, dlen, size, overlap) ==
    IF p.total >= overlap \/ (p.total + dlen > size /\ p.total > 0)
    THEN [cur |-> Tail(p.cur), total |-> p.total - Len(Head(p.cur))]
    ELSE p

\* one turn of the "while" of _merge_splits: the first piece of current_doc
\* is dropped if current_doc is longer than the overlap, or if the next
\* piece (of length dlen) still does not fit
PopStep(p, dlen, size, overlap) ==
    IF p.total > overlap \/ (p.total + dlen > size /\ p.total > 0)
    THEN [cur |-> Tail(p.cur), total |-> p.total - Len(Head(p.cur))]
    ELSE p

\* at most n turns of the "while" (once its condition fails it stays false)
RECURSIVE PopLoop(_, _, _, _, _)
PopLoop(p, dlen, size, overlap, n) ==
    IF n <= 0 THEN p
    ELSE IF n = 1 THEN PopStep(p, dlen, size, overlap)
    ELSE LET h == n \div 2
         IN  CHOOSE r \in {PopLoop(left, dlen, size, overlap, n - h) :
                              left \in {PopLoop(p, dlen, size, overlap, h)}} : TRUE

\* (mutant) the front of current_doc is dropped whole: nothing is carried
\* over into the next chunk
PopFrontAll(cur, total, dlen, size, overlap) ==
    [cur |-> <<>>, total |-> 0]

\* the "while" of _merge_splits, run to its end
PopFront(cur, total, dlen, size, overlap) ==
    PopLoop([cur |-> cur, total |-> total], dlen, size, overlap, Len(cur))

\* _join_docs of current_doc, appended to docs unless it is None
Emit(docs, cur) ==
    LET doc == JoinDocs(cur)
    IN  IF doc # <<>> THEN Append(docs, doc) ELSE docs

\* (mutant) the chunk is joined after the front of current_doc was dropped
MergeStepLate(splits, size, overlap, st, i) ==
    LET d    == splits[i]
        dlen == Len(d)
    IN  IF st.total + dlen > size /\ Len(st.cur) > 0
        THEN LET p == PopFront(st.cur, st.total, dlen, size, overlap)
             IN  [docs  |-> Emit(st.docs, p.cur),
                  cur   |-> Append(p.cur, d),
                  total |-> p.total + dlen]
        ELSE [docs  |-> st.docs,
              cur   |-> Append(st.cur, d),
              total |-> st.total + dlen]

\* the body of "for d in splits" of _merge_splits: when piece d does not fit
\* any more, current_doc is emitted as a chunk and its front dropped
MergeStep(splits, size, overlap, st, i) ==
    LET d    == splits[i]
        dlen == Len(d)
    IN  IF st.total + dlen > size /\ Len(st.cur) > 0
        THEN LET p == PopFront(st.cur, st.total, dlen, size, overlap)
             IN  [docs  |-> Emit(st.docs, st.cur),
                  cur   |-> Append(p.cur, d),
                  total |-> p.total + dlen]
        ELSE [docs  |-> st.docs,
              cur   |-> Append(st.cur, d),
              total |-> st.total + dlen]

RECURSIVE MergeLoop(_, _, _, _, _, _)
MergeLoop(splits, size, overlap, st, lo, hi) ==
    IF lo > hi THEN st
    ELSE IF lo = hi THEN MergeStep(splits, size, overlap, st, lo)
    ELSE LET mid == (lo + hi) \div 2
         IN  CHOOSE r \in {MergeLoop(splits, size, overlap, left, mid + 1, hi) :
                              left \in {MergeLoop(splits, size, overlap, st, lo, mid)}} : TRUE

\* _merge_splits(splits, "") : the pieces packed into chunks of at most
\* size characters, each chunk starting with the tail of the previous one
MergeSplits(splits, size, overlap) ==
    LET end == MergeLoop(splits, size, overlap,
                         [docs |-> <<>>, cur |-> <<>>, total |-> 0], 1, Len(splits))
    IN  Emit(end.docs, end.cur)

\* (mutant) every piece is taken as good: none is split further
IsGoodSplitAlways(s, size) == TRUE

\* a piece is "good" when it is shorter than the chunk size
IsGoodSplit(s, size) == Len(s) < size

\* the separator _split_text picks: the first of the list that is empty or
\* occurs in the text (the last one if none does)
PickSeparator(text, separators) ==
    LET hit == {i \in 1..Len(separators) :
                   separators[i] = <<>> \/ Found(text, separators[i])}
    IN  IF hit = {} THEN Len(separators)
        ELSE CHOOSE i \in hit : \A j \in hit : i <= j

\* the separators left for the pieces that are still too long
NewSeparators(text, separators) ==
    LET idx == PickSeparator(text, separators)
    IN  IF separators[idx] = <<>> \/ ~Found(text, separators[idx]) THEN <<>>
        ELSE SubSeq(separators, idx + 1, Len(separators))

\* _merge_splits of the good pieces gathered so far, if any
Flush(st, size, overlap) ==
    IF st.good # <<>>
    THEN [final |-> st.final \o MergeSplits(st.good, size, overlap),
          good  |-> <<>>]
    ELSE st

\* _split_text(text, separators): "for s in splits" gathers the good pieces;
\* a piece that is too long flushes them and is split with the separators
\* left, or kept as it is when none is left
RECURSIVE SplitText(_, _, _, _), SplitTextLoop(_, _, _, _, _, _, _)
SplitTextLoop(splits, new_separators, size, overlap, st, lo, hi) ==
    IF lo > hi THEN st
    ELSE IF lo = hi
    THEN LET s == splits[lo]
         IN  IF IsGoodSplit(s, size)
             THEN [st EXCEPT !.good = Append(st.good, s)]
             ELSE LET f == Flush(st, size, overlap)
                  IN  IF new_separators = <<>>
                      THEN [f EXCEPT !.final = Append(f.final, s)]
                      ELSE [f EXCEPT !.final =
                               f.final \o SplitText(s, new_separators, size, overlap)]
    ELSE LET mid == (lo + hi) \div 2
         IN  CHOOSE r \in
                 {SplitTextLoop(splits, new_separators, size, overlap, left, mid + 1, hi) :
                     left \in {SplitTextLoop(splits, new_separators, size, overlap,
                                             st, lo, mid)}} : TRUE

SplitText(text, separators, size, overlap) ==
    LET separator == separators[PickSeparator(text, separators)]
        splits    == SplitOn(text, separator)
        end == SplitTextLoop(splits, NewSeparators(text, separators), size, overlap,
                             [final |-> <<>>, good |-> <<>>], 1, Len(splits))
    IN  Flush(end, size, overlap).final

\* text_splitter.split_text(full_text)
split_text(text, size, overlap) == SplitText(text, DefaultSeparators, size, overlap)

(***************************************************************************)
(* Files, exceptions and what a cell prints.                               *)
(***************************************************************************)
NoFile == [exists |-> FALSE, data |-> <<>>]
File(d) == [exists |-> TRUE, data |-> d]

Snapshot == [text_file |-> text_file, chunks_file |-> chunks_file,
             faiss_index |-> faiss_index]

\* a printed message: what it reports, the path or error text it names,
\* and the document text it shows
Msg(kind, arg) == [kind |-> kind, arg |-> arg, text |-> <<>>]

\* the cells whose try statement has an "except FileNotFoundError" clause
\* before "except Exception"
HasMissingInputBranch(c) == c \in {"Extractor", "Chunker", "Indexer"}

\* the path the "except FileNotFoundError" clause of a cell names
InputPath(c) ==
    CASE c = "Extractor" -> pdf_path
      [] c = "Chunker"   -> input_text_file
      [] c = "Indexer"   -> input_chunks_file
      [] OTHER           -> faiss_index_path

\* the exception classes; only the builtin FileNotFoundError (raised by
\* open()) is matched by "except FileNotFoundError".  fitz.open raises the
\* library's own class of that name, a RuntimeError; FAISS.load_local raises
\* a RuntimeError.
BuiltinFileNotFound(path) == [class |-> "FileNotFoundError", msg |-> path]
FitzFileNotFound == [class |-> "fitz.FileNotFoundError", msg |-> "no such file"]
FitzFileData == [class |-> "fitz.FileDataError", msg |-> "cannot open broken document"]
FitzPageError == [class |-> "RuntimeError", msg |-> "cannot load page"]
ListIndexError == [class |-> "IndexError", msg |-> "list index out of range"]
ModelLoadError == [class |-> "OSError", msg |-> "cannot load model"]
FaissReadError == [class |-> "RuntimeError", msg |-> "could not open index for reading"]
GenerationError == [class |-> "RuntimeError", msg |-> "generation failed"]

\* the except clause that handles exc in cell c, and what it prints
Report(c, exc) ==
    IF HasMissingInputBranch(c) /\ exc.class = "FileNotFoundError"
    THEN Msg("missing_input", InputPath(c))
    ELSE Msg("unexpected", exc.msg)

\* a statement of cell c raises exc after the cell has printed sofar: the
\* handler prints and the cell ends
Raise(c, sofar, exc) ==
    /\ out' = Append(sofar, Report(c, exc))
    /\ pc' = "end"

\* the first statement of cell c starts a run of it
Begin(c) ==
    /\ pc = "idle"
    /\ runs < MaxRuns
    /\ runs' = runs + 1
    /\ cell' = c
    /\ pre' = Snapshot

(***************************************************************************)
(* The Extractor cell.                                                     *)
(***************************************************************************)
Digits == <<"0", "1", "2", "3", "4", "5", "6", "7", "8", "9">>

\* str(n)
RECURSIVE Decimal(_)
Decimal(n) ==
    IF n < 10 THEN <<Digits[n + 1]>>
    ELSE Decimal(n \div 10) \o <<Digits[(n % 10) + 1]>>

\* f"\n--- Page {n} ---\n"
Marker(n) ==
    <<"\n", "-", "-", "-", " ", "P", "a", "g", "e", " ">>
        \o Decimal(n) \o <<" ", "-", "-", "-", "\n">>

num_pages == Len(pdf.pages)

\* doc = fitz.open(pdf_path); full_text = ""; num_pages = len(doc)
ExtOpen ==
    /\ Begin("Extractor")
    /\ IF ~pdf.exists
       THEN Raise("Extractor", <<>>, FitzFileNotFound) /\ UNCHANGED <<full_text, page_num>>
       ELSE IF ~pdf.valid
       THEN Raise("Extractor", <<>>, FitzFileData) /\ UNCHANGED <<full_text, page_num>>
       ELSE /\ full_text' = <<>>
            /\ page_num' = 0
            /\ out' = <<>>
            /\ pc' = "ext_page"
    /\ UNCHANGED <<files, chunks, vectorstore, result, embedding, reported,
                   replaced, cvars>>

\* (mutant) the marker carries the loop index, which starts at 0
ExtPageFromZero ==
    /\ pc = "ext_page"
    /\ page_num < num_pages
    /\ LET page == pdf.pages[page_num + 1]
       IN  IF ~page.ok
           THEN Raise("Extractor", out, FitzPageError) /\ UNCHANGED <<full_text, page_num>>
           ELSE /\ full_text' = full_text \o Marker(page_num) \o page.text
                /\ page_num' = page_num + 1
                /\ UNCHANGED <<pc, out>>
    /\ UNCHANGED <<files, cell, chunks, vectorstore, result, embedding, pre,
                   reported, runs, replaced, cvars>>

\* (mutant) the output file is written page by page, as the text grows
ExtPageWritingThrough ==
    /\ pc = "ext_page"
    /\ page_num < num_pages
    /\ LET page == pdf.pages[page_num + 1]
       IN  IF ~page.ok
           THEN /\ Raise("Extractor", out, FitzPageError)
                /\ UNCHANGED <<full_text, page_num, text_file>>
           ELSE /\ full_text' = full_text \o Marker(page_num + 1) \o page.text
                /\ text_file' = File(full_text')
                /\ page_num' = page_num + 1
                /\ UNCHANGED <<pc, out>>
    /\ UNCHANGED <<pdf, chunks_file, faiss_index, cell, chunks, vectorstore,
                   result, embedding, pre, reported, runs, replaced, cvars>>

\* one turn of "for page_num in range(num_pages)"
ExtPage ==
    /\ pc = "ext_page"
    /\ page_num < num_pages
    /\ LET page == pdf.pages[page_num + 1]
       IN  IF ~page.ok
           THEN Raise("Extractor", out, FitzPageError) /\ UNCHANGED <<full_text, page_num>>
           ELSE /\ full_text' = full_text \o Marker(page_num + 1) \o page.text
                /\ page_num' = page_num + 1
                /\ UNCHANGED <<pc, out>>
    /\ UNCHANGED <<files, cell, chunks, vectorstore, result, embedding, pre,
                   reported, runs, replaced, cvars>>

\* the loop is over: doc.close()
ExtClose ==
    /\ pc = "ext_page"
    /\ page_num = num_pages
    /\ pc' = "ext_write"
    /\ UNCHANGED <<files, kernel, cell, out, embedding, pre, reported, runs,
                   replaced, cvars>>

\* the text is written and the success message printed
ExtWrite ==
    /\ pc = "ext_write"
    /\ text_file' = File(full_text)
    /\ out' = Append(out, Msg("success", output_text_file))
    /\ reported' = reported \cup {"Extractor"}
    /\ pc' = "end"
    /\ UNCHANGED <<pdf, chunks_file, faiss_index, kernel, cell, embedding, pre,
                   runs, replaced, cvars>>

(***************************************************************************)
(* The Chunker cell.                                                       *)
(***************************************************************************)
\* (mutant) without the file, the cell goes on with the full_text that an
\* earlier cell left in the kernel
ChkReadFallback ==
    /\ Begin("Chunker")
    /\ full_text' = IF text_file.exists THEN text_file.data ELSE full_text
    /\ out' = <<Msg("info", "loaded")>>
    /\ pc' = "chk_split"
    /\ UNCHANGED <<files, page_num, chunks, vectorstore, result, embedding,
                   reported, replaced, cvars>>

\* with open(input_text_file) as f: full_text = f.read()
ChkRead ==
    /\ Begin("Chunker")
    /\ IF ~text_file.exists
       THEN Raise("Chunker", <<>>, BuiltinFileNotFound(input_text_file)) /\ UNCHANGED full_text
       ELSE /\ full_text' = text_file.data
            /\ out' = <<Msg("info", "loaded")>>
            /\ pc' = "chk_split"
    /\ UNCHANGED <<files, page_num, chunks, vectorstore, result, embedding,
                   reported, replaced, cvars>>

\* chunks = text_splitter.split_text(full_text)
ChkSplit ==
    /\ pc = "chk_split"
    /\ chunks' = split_text(full_text, chunk_size, chunk_overlap)
    /\ pc' = "chk_write"
    /\ UNCHANGED <<files, full_text, page_num, vectorstore, result, cell, out,
                   embedding, pre, reported, runs, replaced, cvars>>

\* pickle.dump(chunks, f) and the success message
ChkWrite ==
    /\ pc = "chk_write"
    /\ chunks_file' = File(chunks)
    /\ out' = Append(out, Msg("success", output_chunks_file))
    /\ reported' = reported \cup {"Chunker"}
    /\ pc' = "chk_preview"
    /\ UNCHANGED <<pdf, text_file, faiss_index, kernel, cell, embedding, pre,
                   runs, replaced, cvars>>

\* print(chunks[0])
ChkPreview ==
    /\ pc = "chk_preview"
    /\ IF chunks = <<>>
       THEN Raise("Chunker", out, ListIndexError)
       ELSE out' = Append(out, Msg("info", "preview")) /\ pc' = "end"
    /\ UNCHANGED <<files, kernel, cell, embedding, pre, reported, runs,
                   replaced, cvars>>

(***************************************************************************)
(* The Indexer cell.                                                       *)
(***************************************************************************)
\* FAISS.from_texts: one entry per chunk, its text verbatim with its vector
BuildIndex(texts, embed) ==
    [i \in 1..Len(texts) |-> [page_content |-> texts[i], vec |-> embed[texts[i]]]]

\* with open(input_chunks_file, 'rb') as f: chunks = pickle.load(f)
IdxRead ==
    /\ Begin("Indexer")
    /\ IF ~chunks_file.exists
       THEN Raise("Indexer", <<>>, BuiltinFileNotFound(input_chunks_file))
            /\ UNCHANGED chunks
       ELSE /\ chunks' = chunks_file.data
            /\ out' = <<Msg("info", "loaded")>>
            /\ pc' = "idx_model"
    /\ UNCHANGED <<files, full_text, page_num, vectorstore, result, embedding,
                   reported, replaced, cvars>>

\* embeddings = HuggingFaceEmbeddings(model_name=model_name)
IdxModel ==
    /\ pc = "idx_model"
    /\ \E ok \in BOOLEAN :
          IF ok THEN pc' = "idx_build" /\ UNCHANGED out
          ELSE Raise("Indexer", out, ModelLoadError)
    /\ UNCHANGED <<files, kernel, cell, embedding, pre, reported, runs,
                   replaced, cvars>>

\* vectorstore = FAISS.from_texts(texts=chunks, embedding=embeddings); with
\* no chunk there is no first vector to take the dimension from
IdxBuild ==
    /\ pc = "idx_build"
    /\ IF chunks = <<>>
       THEN Raise("Indexer", out, ListIndexError) /\ UNCHANGED vectorstore
       ELSE /\ vectorstore' = BuildIndex(chunks, embedding)
            /\ pc' = "idx_save"
            /\ UNCHANGED out
    /\ UNCHANGED <<files, full_text, page_num, chunks, result, cell, embedding,
                   pre, reported, runs, replaced, cvars>>

\* vectorstore.save_local(faiss_index_path) and the success message
IdxSave ==
    /\ pc = "idx_save"
    /\ faiss_index' = File(vectorstore)
    /\ out' = Append(out, Msg("success", faiss_index_path))
    /\ reported' = reported \cup {"Indexer"}
    /\ pc' = "end"
    /\ UNCHANGED <<pdf, text_file, chunks_file, kernel, cell, embedding, pre,
                   runs, replaced, cvars>>

(***************************************************************************)
(* The Query Engine cell.                                                  *)
(***************************************************************************)
\* the squared L2 distance of the flat index
Distance(v, q) == (v - q) * (v - q)

\* (mutant) the entries are taken in index order, not by distance
NearestFirstInOrder(index, q, k, taken) ==
    IF k = 0 \/ taken = DOMAIN index THEN <<>>
    ELSE [j \in 1..(IF k < Len(index) THEN k ELSE Len(index)) |-> j]

\* index.search: the ids of the k entries nearest to q, nearest first (the
\* lower id first among equals); fewer when the index holds fewer
RECURSIVE Nearest(_, _, _, _)
Nearest(index, q, k, taken) ==
    IF k = 0 \/ taken = DOMAIN index THEN <<>>
    ELSE LET left == DOMAIN index \ taken
             best == CHOOSE i \in left : \A j \in left :
                        \/ Distance(index[i].vec, q) < Distance(index[j].vec, q)
                        \/ /\ Distance(index[i].vec, q) = Distance(index[j].vec, q)
                           /\ i <= j
         IN  <<best>> \o Nearest(index, q, k - 1, taken \cup {best})

\* retriever.get_relevant_documents(question) with search_kwargs k
similarity_search(index, embed, query, k) ==
    LET ids == Nearest(index, embed[query], k, {})
    IN  [j \in 1..Len(ids) |-> [id |-> ids[j], page_content |-> index[ids[j]].page_content]]

\* the answer the refine chain generates from the question and the sources
Generate(query, docs) == <<"x">>

\* s.splitlines()[1]: the second line, when there is one
HasSecondLine(s) ==
    \E i \in 1..(Len(s) - 1) : s[i] = "\n"

SecondLine(s) ==
    LET nl   == CHOOSE i \in 1..Len(s) : s[i] = "\n" /\ \A j \in 1..(i - 1) : s[j] # "\n"
        ends == {i \in (nl + 1)..Len(s) : s[i] = "\n"}
        stop == IF ends = {} THEN Len(s) + 1
                ELSE CHOOSE i \in ends : \A j \in ends : i <= j
    IN  SubSeq(s, nl + 1, stop - 1)

\* line.split()[-1]: the last word of the line, when there is one
HasWord(line) == \E i \in 1..Len(line) : line[i] \notin Whitespace

LastWord(line) ==
    LET t     == Strip(line)
        gaps  == {i \in 1..Len(t) : t[i] \in Whitespace}
        start == IF gaps = {} THEN 1
                 ELSE 1 + CHOOSE i \in gaps : \A j \in gaps : j <= i
    IN  SubSeq(t, start, Len(t))

\* the try statement around page_info: an IndexError of either subscript
\* gives "(Page number not found)"
PageInfo(content) ==
    IF HasSecondLine(content) /\ HasWord(SecondLine(content))
    THEN [kind |-> "source", arg |-> "from Page", text |-> LastWord(SecondLine(content))]
    ELSE [kind |-> "source", arg |-> "Page number not found", text |-> <<>>]

\* what the sources loop prints for one source
SourceLines(doc) ==
    << PageInfo(doc.page_content),
       [kind |-> "content", arg |-> "...",
        text |-> SubSeq(doc.page_content, 1,
                        IF Len(doc.page_content) < 300 THEN Len(doc.page_content) ELSE 300)] >>

RECURSIVE SourcesOutput(_, _)
SourcesOutput(docs, i) ==
    IF i > Len(docs) THEN <<>>
    ELSE SourceLines(docs[i]) \o SourcesOutput(docs, i + 1)

NoResult == [result |-> <<>>, source_documents |-> <<>>]

\* embeddings = HuggingFaceEmbeddings(model_name=model_name)
QaModel ==
    /\ Begin("Query")
    /\ \E ok \in BOOLEAN :
          IF ok THEN out' = <<Msg("info", "loading")>> /\ pc' = "qa_load"
          ELSE Raise("Query", <<>>, ModelLoadError)
    /\ UNCHANGED <<files, kernel, embedding, reported, replaced, cvars>>

\* (mutant) a missing index is loaded as an empty one
QaLoadMissingAsEmpty ==
    /\ pc = "qa_load"
    /\ vectorstore' = faiss_index.data
    /\ out' = Append(out, Msg("info", "index loaded"))
    /\ pc' = "qa_llm"
    /\ UNCHANGED <<files, full_text, page_num, chunks, result, cell, embedding,
                   pre, reported, runs, replaced, cvars>>

\* vectorstore = FAISS.load_local(faiss_index_path, embeddings, ...)
QaLoad ==
    /\ pc = "qa_load"
    /\ IF ~faiss_index.exists
       THEN Raise("Query", out, FaissReadError) /\ UNCHANGED vectorstore
       ELSE /\ vectorstore' = faiss_index.data
            /\ out' = Append(out, Msg("info", "index loaded"))
            /\ pc' = "qa_llm"
    /\ UNCHANGED <<files, full_text, page_num, chunks, result, cell, embedding,
                   pre, reported, runs, replaced, cvars>>

\* (mutant) the generation model is loaded on first use: the cell goes on
\* to the question whether or not the model can be loaded
QaLlmOnFirstUse ==
    /\ pc = "qa_llm"
    /\ \E ok \in BOOLEAN :
          out' = IF ok THEN Append(out, Msg("info", "chain ready")) ELSE out
    /\ pc' = "qa_invoke"
    /\ UNCHANGED <<files, kernel, cell, embedding, pre, reported, runs,
                   replaced, cvars>>

\* the tokenizer, the model and the generation pipeline are loaded
QaLlm ==
    /\ pc = "qa_llm"
    /\ \E ok \in BOOLEAN :
          IF ok THEN out' = Append(out, Msg("info", "chain ready")) /\ pc' = "qa_invoke"
          ELSE Raise("Query", out, ModelLoadError)
    /\ UNCHANGED <<files, kernel, cell, embedding, pre, reported, runs,
                   replaced, cvars>>

\* result = qa_chain.invoke({"query": question}): the k nearest chunks are
\* retrieved and the answer generated from them
QaInvoke ==
    /\ pc = "qa_invoke"
    /\ \E ok \in BOOLEAN :
          IF ok
          THEN LET docs == similarity_search(vectorstore, embedding, question, retriever_k)
               IN  /\ result' = [result |-> Generate(question, docs),
                                 source_documents |-> docs]
                   /\ pc' = "qa_answer"
                   /\ UNCHANGED out
          ELSE Raise("Query", out, GenerationError) /\ UNCHANGED result
    /\ UNCHANGED <<files, full_text, page_num, chunks, vectorstore, cell,
                   embedding, pre, reported, runs, replaced, cvars>>

\* print(result['result'])
QaAnswer ==
    /\ pc = "qa_answer"
    /\ out' = Append(out, [kind |-> "answer", arg |-> "", text |-> result.result])
    /\ reported' = reported \cup {"Query"}
    /\ pc' = "qa_sources"
    /\ UNCHANGED <<files, kernel, cell, embedding, pre, runs, replaced, cvars>>

\* for i, source in enumerate(result['source_documents']): ...
QaSources ==
    /\ pc = "qa_sources"
    /\ out' = out \o SourcesOutput(result.source_documents, 1)
    /\ pc' = "end"
    /\ UNCHANGED <<files, kernel, cell, embedding, pre, reported, runs,
                   replaced, cvars>>

(***************************************************************************)
(* The notebook: cells are run one at a time, in any order; between runs   *)
(* the user may replace or remove the document.                            *)
(***************************************************************************)
PageTexts == {<<"a">>, <<"b">>}

Pages == {[ok |-> TRUE, text |-> t] : t \in PageTexts} \cup {[ok |-> FALSE, text |-> <<>>]}

Documents ==
    {[exists |-> FALSE, valid |-> FALSE, pages |-> <<>>],
     [exists |-> TRUE, valid |-> FALSE, pages |-> <<>>]}
    \cup {[exists |-> TRUE, valid |-> TRUE, pages |-> ps] :
             ps \in UNION {[1..n -> Pages] : n \in 0..MaxPages}}

\* the text of a document whose pages all load: marker and text, page by page
RECURSIVE PagesText(_, _)
PagesText(ps, n) ==
    IF n = 0 THEN <<>>
    ELSE PagesText(ps, n - 1) \o Marker(n) \o ps[n].text

\* the texts the embedding model is applied to
EmbeddedTexts ==
    {question} \cup
    UNION {{c[i] : i \in DOMAIN c} :
              c \in {split_text(PagesText(d.pages, Len(d.pages)), chunk_size, chunk_overlap) :
                        d \in {e \in Documents : \A i \in DOMAIN e.pages : e.pages[i].ok}}}

SplitterAtRest ==
    /\ c_text = <<>>
    /\ c_size = chunk_size
    /\ c_overlap = chunk_overlap
    /\ c_chunks = <<>>
    /\ c_done = TRUE

Init ==
    /\ pdf \in Documents
    /\ text_file = NoFile
    /\ chunks_file = NoFile
    /\ faiss_index = NoFile
    /\ pc = "idle"
    /\ cell = "none"
    /\ out = <<>>
    /\ full_text = <<>>
    /\ page_num = 0
    /\ chunks = <<>>
    /\ vectorstore = <<>>
    /\ result = NoResult
    /\ embedding = [t \in EmbeddedTexts |-> Len(t) % (MaxCoord + 1)]
    /\ pre = [text_file |-> NoFile, chunks_file |-> NoFile, faiss_index |-> NoFile]
    /\ reported = {}
    /\ runs = 0
    /\ replaced = 0
    /\ SplitterAtRest

\* the cell has ended
Finish ==
    /\ pc = "end"
    /\ pc' = "idle"
    /\ UNCHANGED <<files, kernel, cell, out, embedding, pre, reported, runs,
                   replaced, cvars>>

\* the user puts another document at pdf_path, or removes it
ReplacePdf ==
    /\ pc = "idle"
    /\ replaced < MaxReplace
    /\ pdf' \in Documents \ {pdf}
    /\ replaced' = replaced + 1
    /\ UNCHANGED <<text_file, chunks_file, faiss_index, kernel, pc, cell, out,
                   embedding, pre, reported, runs, cvars>>

Extractor == ExtOpen \/ ExtPage \/ ExtClose \/ ExtWrite
Chunker == ChkRead \/ ChkSplit \/ ChkWrite \/ ChkPreview
Indexer == IdxRead \/ IdxModel \/ IdxBuild \/ IdxSave
QueryEngine == QaModel \/ QaLoad \/ QaLlm \/ QaInvoke \/ QaAnswer \/ QaSources

Next == Extractor \/ Chunker \/ Indexer \/ QueryEngine \/ Finish \/ ReplacePdf

Spec == Init /\ [][Next]_vars

(***************************************************************************)
(* The Query Engine at the point where it invokes the chain, on every      *)
(* small index and every embedding function.                               *)
(***************************************************************************)
RetrievalTexts == {<<"a">>, <<"b">>, <<"a", "\n", "b">>}

Indexes == UNION {[1..n -> RetrievalTexts] : n \in 1..MaxIndex}

PipelineAtRest ==
    /\ pdf = [exists |-> FALSE, valid |-> FALSE, pages |-> <<>>]
    /\ text_file = NoFile
    /\ chunks_file = NoFile
    /\ faiss_index = NoFile
    /\ pc = "idle"
    /\ cell = "none"
    /\ out = <<>>
    /\ full_text = <<>>
    /\ page_num = 0
    /\ chunks = <<>>
    /\ vectorstore = <<>>
    /\ result = NoResult
    /\ embedding = [t \in {question} |-> 0]
    /\ pre = [text_file |-> NoFile, chunks_file |-> NoFile, faiss_index |-> NoFile]
    /\ reported = {}
    /\ runs = 0
    /\ replaced = 0

InitRetrieve ==
    /\ embedding \in [RetrievalTexts \cup {question} -> 0..MaxCoord]
    /\ \E cs \in Indexes :
          /\ chunks_file = File(cs)
          /\ chunks = cs
          /\ vectorstore = BuildIndex(cs, embedding)
    /\ faiss_index = File(vectorstore)
    /\ pdf = [exists |-> FALSE, valid |-> FALSE, pages |-> <<>>]
    /\ text_file = NoFile
    /\ pc = "qa_invoke"
    /\ cell = "Query"
    /\ out = <<Msg("info", "loading"), Msg("info", "index loaded"), Msg("info", "chain ready")>>
    /\ full_text = <<>>
    /\ page_num = 0
    /\ result = NoResult
    /\ pre = Snapshot
    /\ reported = {"Extractor", "Chunker", "Indexer"}
    /\ runs = 1
    /\ replaced = 0
    /\ SplitterAtRest

NextRetrieve == QaInvoke \/ QaAnswer \/ QaSources \/ Finish

SpecRetrieve == InitRetrieve /\ [][NextRetrieve]_vars

(***************************************************************************)
(* The Query Engine at the point where it invokes the chain, on indexes    *)
(* whose chunks carry a page marker in different places, or none.          *)
(***************************************************************************)
\* the marker as it stands on its line: "--- Page {n} ---"
MarkerLine(n) == SubSeq(Marker(n), 2, Len(Marker(n)) - 1)

SourceTexts ==
    { <<"a">>,
      <<"a", "\n", "b">>,
      <<"a", "\n", " ", "\n", "b">>,
      MarkerLine(2),
      MarkerLine(1) \o <<"\n", "a", " ", "b">>,
      <<"a", "\n">> \o MarkerLine(2) \o <<"\n", "b">> }

SourceIndexes == UNION {[1..n -> SourceTexts] : n \in 1..MaxSources}

InitSources ==
    /\ embedding = [t \in SourceTexts \cup {question} |-> Len(t) % (MaxCoord + 1)]
    /\ \E cs \in SourceIndexes :
          /\ chunks_file = File(cs)
          /\ chunks = cs
          /\ vectorstore = BuildIndex(cs, embedding)
    /\ faiss_index = File(vectorstore)
    /\ pdf = [exists |-> FALSE, valid |-> FALSE, pages |-> <<>>]
    /\ text_file = NoFile
    /\ pc = "qa_invoke"
    /\ cell = "Query"
    /\ out = <<Msg("info", "loading"), Msg("info", "index loaded"), Msg("info", "chain ready")>>
    /\ full_text = <<>>
    /\ page_num = 0
    /\ result = NoResult
    /\ pre = Snapshot
    /\ reported = {"Extractor", "Chunker", "Indexer"}
    /\ runs = 1
    /\ replaced = 0
    /\ SplitterAtRest

NextSources == QaInvoke \/ QaAnswer \/ QaSources \/ Finish

SpecSources == InitSources /\ [][NextSources]_vars

(***************************************************************************)
(* The splitter alone, on every short text and every pair of parameters.   *)
(***************************************************************************)
Alphabet == {"a", "b", " ", "\n"}

Texts(n) == UNION {[1..k -> Alphabet] : k \in 0..n}

InitChunk ==
    /\ PipelineAtRest
    /\ c_text \in Texts(MaxTextLen)
    /\ c_size \in 1..MaxChunkSize
    /\ c_overlap \in 0..(c_size - 1)
    /\ c_chunks = <<>>
    /\ c_done = FALSE

RunSplit ==
    /\ ~c_done
    /\ c_chunks' = split_text(c_text, c_size, c_overlap)
    /\ c_done' = TRUE
    /\ UNCHANGED <<c_text, c_size, c_overlap, pvars>>

NextChunk == RunSplit

SpecChunk == InitChunk /\ [][NextChunk]_vars

(***************************************************************************)
(* The splitter with the notebook's parameters on texts of 2,400           *)
(* characters: letters only (pattern), one separator character at one      *)
(* place, paragraphs divided by blank lines, and blanks only.              *)
(***************************************************************************)
ScenarioText(period, ws, ch) ==
    [i \in 1..2400 |-> IF i \in ws THEN ch
                       ELSE IF i % period = 0 THEN "b" ELSE "a"]

LetterTexts == {ScenarioText(p, {}, " ") : p \in 2..(1 + ScenarioPatterns)}

OneSeparatorTexts ==
    {ScenarioText(7, {k * (2400 \div (ScenarioCuts + 1))}, ch) :
        k \in 1..ScenarioCuts, ch \in Whitespace}

ParagraphTexts ==
    {ScenarioText(7, {i \in 1..2400 : i % (2400 \div m) \in {0, 1}}, "\n") :
        m \in 2..(1 + ScenarioParagraphs)}

BlankTexts == {ScenarioText(7, 1..2400, " ")}

ScenarioTexts == LetterTexts \cup OneSeparatorTexts \cup ParagraphTexts \cup BlankTexts

InitScenario ==
    /\ PipelineAtRest
    /\ c_text \in ScenarioTexts
    /\ c_size = chunk_size
    /\ c_overlap = chunk_overlap
    /\ c_chunks = <<>>
    /\ c_done = FALSE

NextScenario == RunSplit

SpecScenario == InitScenario /\ [][NextScenario]_vars

(***************************************************************************)
(* Properties of the splitter.                                             *)
(***************************************************************************)
Min(a, b) == IF a < b THEN a ELSE b
Max(a, b) == IF a > b THEN a ELSE b

NoWhitespace(text) == \A i \in 1..Len(text) : text[i] \notin Whitespace

\* a nonempty suffix of x is a prefix of y
SharesEdge(x, y) ==
    \E k \in 1..Min(Len(x), Len(y)) :
        SubSeq(x, Len(x) - k + 1, Len(x)) = SubSeq(y, 1, k)

\* chunk i of a text without separators: size characters starting every
\* (size - overlap) characters
WindowStart(i, size, overlap) == (i - 1) * (size - overlap) + 1
Window(text, i, size, overlap) ==
    SubSeq(text, WindowStart(i, size, overlap),
           Min(WindowStart(i, size, overlap) + size - 1, Len(text)))

\* the chunks chs[i..] can be laid on the text in order: chunk i is the
\* substring at some position p >= from, and every character between the
\* end of the chunks laid so far (covered) and p is whitespace
RECURSIVE LaysOut(_, _, _, _, _)
LaysOut(text, chs, i, from, covered) ==
    IF i > Len(chs)
    THEN \A q \in (covered + 1)..Len(text) : text[q] \in Whitespace
    ELSE \E p \in from..(Len(text) - Len(chs[i]) + 1) :
            /\ SubSeq(text, p, p + Len(chs[i]) - 1) = chs[i]
            /\ \A q \in (covered + 1)..(p - 1) : text[q] \in Whitespace
            /\ LaysOut(text, chs, i + 1, p, Max(covered, p + Len(chs[i]) - 1))

\* the text can be rebuilt from chs[i..] by dropping from each chunk a
\* prefix it shares with the end of the previous chunk; acc is the text
\* rebuilt from the chunks before i
RECURSIVE Rebuilds(_, _, _, _)
Rebuilds(text, chs, i, acc) ==
    IF i > Len(chs) THEN acc = text
    ELSE \E k \in 0..(IF i = 1 THEN 0 ELSE Min(Len(chs[i]), Len(chs[i - 1]))) :
            /\ (i > 1 => SubSeq(chs[i - 1], Len(chs[i - 1]) - k + 1, Len(chs[i - 1]))
                           = SubSeq(chs[i], 1, k))
            /\ LET acc2 == acc \o SubSeq(chs[i], k + 1, Len(chs[i]))
               IN  /\ Len(acc2) <= Len(text)
                   /\ acc2 = SubSeq(text, 1, Len(acc2))
                   /\ Rebuilds(text, chs, i + 1, acc2)

\* C6: every chunk the splitter returns is at most chunk_size characters
\* long, unless it is a single character, the one unit that the separator
\* hierarchy cannot divide.
ChunkLengthBounded ==
    c_done => \A i \in 1..Len(c_chunks) :
                  Len(c_chunks[i]) <= c_size \/ Len(c_chunks[i]) = 1

ChunkLengthWitness ==
    /\ c_done
    /\ Len(c_text) > c_size
    /\ Len(c_chunks) >= 2
    /\ \E i \in 1..Len(c_chunks) : Len(c_chunks[i]) = c_size /\ c_size > 1
    /\ \E i \in 1..Len(c_text) : c_text[i] \in Whitespace

ChunksRebuildText ==
    c_done => Rebuilds(c_text, c_chunks, 1, <<>>)

\* C8 amended: each chunk is a contiguous substring of the text, the chunks
\* lie on the text in document order (start offsets do not decrease), and
\* every character of the text that no chunk covers is whitespace.
ChunksCoverText ==
    c_done => LaysOut(c_text, c_chunks, 1, 1, 0)

ChunksCoverWitness ==
    /\ c_done
    /\ Len(c_chunks) >= 2
    /\ c_text[1] \in Whitespace
    /\ ~Rebuilds(c_text, c_chunks, 1, <<>>)
    /\ \E i \in 1..Len(c_chunks) : Len(c_chunks[i]) >= 2

\* C9 as stated: every text of 2,400 characters, split with chunk_size 1000
\* and overlap 200, gives exactly 3 chunks, chunk 2 starting at offset 800
\* when the text holds no separator.
ScenarioThreeChunks ==
    (c_done /\ Len(c_text) = 2400 /\ c_size = 1000 /\ c_overlap = 200)
        => /\ Len(c_chunks) = 3
           /\ NoWhitespace(c_text) => c_chunks[2] = SubSeq(c_text, 801, 1800)

\* C9 amended: a text of 2,400 characters without whitespace, split with
\* chunk_size 1000 and overlap 200, gives exactly the 3 chunks that start at
\* offsets 0, 800 and 1600: characters 1..1000, 801..1800 and 1601..2400.
ScenarioThreeWindows ==
    (c_done /\ Len(c_text) = 2400 /\ c_size = 1000 /\ c_overlap = 200
            /\ NoWhitespace(c_text))
        => c_chunks = << SubSeq(c_text, 1, 1000),
                         SubSeq(c_text, 801, 1800),
                         SubSeq(c_text, 1601, 2400) >>

ScenarioWitness ==
    /\ c_done
    /\ Len(c_text) = 2400 /\ c_size = 1000 /\ c_overlap = 200
    /\ NoWhitespace(c_text)
    /\ Len(c_chunks) = 3
    /\ c_chunks[2] # c_chunks[1]

(***************************************************************************)
(* Properties of the cells.                                                *)
(***************************************************************************)
Printed(kind) == \E i \in 1..Len(out) : out[i].kind = kind

RunEnded(c) == pc = "end" /\ cell = c

RunFailed == Printed("missing_input") \/ Printed("unexpected")

\* the places where the marker of page n stands in a text
MarkerPlaces(text, n) == {p \in 1..Len(text) : MatchAt(text, Marker(n), p)}

\* C1: when the Extractor has read a document of N pages without error, the
\* text it wrote is, page by page in order, the marker of page i followed by
\* the text of page i; it holds the markers of pages 1..N once each, in
\* increasing order, and no marker of another page.
ExtractedTextIsPagesInOrder ==
    (RunEnded("Extractor") /\ Printed("success"))
        => /\ text_file = File(PagesText(pdf.pages, num_pages))
           /\ \A n \in 1..num_pages : Cardinality(MarkerPlaces(text_file.data, n)) = 1
           /\ \A n \in 1..(num_pages - 1) :
                  \A p \in MarkerPlaces(text_file.data, n) :
                      \A r \in MarkerPlaces(text_file.data, n + 1) : p < r
           /\ \A n \in {0} \cup ((num_pages + 1)..(MaxPages + 1)) :
                  MarkerPlaces(text_file.data, n) = {}

ExtractedTextWitness ==
    /\ RunEnded("Extractor") /\ Printed("success")
    /\ num_pages = 2
    /\ pdf.pages[1] # pdf.pages[2]
    /\ text_file.exists

\* C2: a run that ends by reporting a failure leaves the three generated
\* files as they were when it started.
FailedRunLeavesFiles ==
    (pc = "end" /\ RunFailed) => Snapshot = pre

\* C3: the Extractor, the Chunker or the Indexer, run without its input,
\* prints the missing-input message naming the path, nothing else, and
\* writes no file.
InputMissing(c) ==
    CASE c = "Extractor" -> ~pdf.exists
      [] c = "Chunker"   -> ~pre.text_file.exists
      [] c = "Indexer"   -> ~pre.chunks_file.exists
      [] OTHER           -> ~pre.faiss_index.exists

MissingInputReported ==
    \A c \in {"Extractor", "Chunker", "Indexer"} :
        (RunEnded(c) /\ InputMissing(c))
            => /\ out = <<Msg("missing_input", InputPath(c))>>
               /\ Snapshot = pre

\* C4 as stated: the Query Engine, run without the index, prints the
\* missing-input message naming the index path and no answer.
QueryMissingIndexReported ==
    (RunEnded("Query") /\ InputMissing("Query"))
        => /\ \E i \in 1..Len(out) : out[i] = Msg("missing_input", faiss_index_path)
           /\ ~Printed("unexpected")
           /\ ~Printed("answer")

\* C4 amended: the Query Engine has one failure branch only; run without
\* the index, it ends with the unexpected-failure message carrying the
\* error's text, prints no missing-input message, no answer and no source,
\* and leaves the files as they were.
QueryMissingIndexUnexpected ==
    (RunEnded("Query") /\ InputMissing("Query"))
        => /\ out[Len(out)].kind = "unexpected"
           /\ out[Len(out)].arg \in {FaissReadError.msg, ModelLoadError.msg}
           /\ ~Printed("missing_input")
           /\ ~Printed("answer")
           /\ ~Printed("source")
           /\ Snapshot = pre

QueryMissingIndexWitness ==
    /\ RunEnded("Query") /\ InputMissing("Query")
    /\ out[Len(out)] = Msg("unexpected", FaissReadError.msg)
    /\ text_file.exists /\ chunks_file.exists

\* C5: a cell reports success only after the cell before it has, and works
\* on what it has just read from the file of the cell before it.
StagesInOrder ==
    /\ "Chunker" \in reported => "Extractor" \in reported
    /\ "Indexer" \in reported => "Chunker" \in reported
    /\ "Query" \in reported => "Indexer" \in reported
    /\ pc = "chk_split" => text_file.exists /\ full_text = text_file.data
    /\ pc = "chk_write" =>
          chunks = split_text(text_file.data, chunk_size, chunk_overlap)
    /\ pc \in {"idx_model", "idx_build"} =>
          chunks_file.exists /\ chunks = chunks_file.data
    /\ pc = "idx_save" => vectorstore = BuildIndex(chunks_file.data, embedding)
    /\ pc \in {"qa_llm", "qa_invoke", "qa_answer", "qa_sources"} =>
          faiss_index.exists /\ vectorstore = faiss_index.data

StagesInOrderWitness ==
    /\ RunEnded("Query")
    /\ Printed("answer") /\ Printed("source")
    /\ reported = {"Extractor", "Chunker", "Indexer", "Query"}
    /\ runs = 4

\* C10: the retrieval result of an index of n >= 1 chunks holds min(3, n)
\* entries, each the verbatim text of a distinct chunk of the index, nearest
\* to the question first, and no chunk left out is strictly nearer to the
\* question than one that is in.
DistanceOf(id) == Distance(vectorstore[id].vec, embedding[question])

RetrievalIsTopThree ==
    (cell = "Query" /\ pc \in {"qa_answer", "qa_sources"} /\ Len(vectorstore) >= 1)
        => LET docs == result.source_documents
               ids  == {docs[j].id : j \in 1..Len(docs)}
           IN  /\ Len(docs) = Min(3, Len(vectorstore))
               /\ ids \subseteq 1..Len(vectorstore)
               /\ Cardinality(ids) = Len(docs)
               /\ \A j \in 1..Len(docs) :
                      docs[j].page_content = vectorstore[docs[j].id].page_content
               /\ \A j \in 1..(Len(docs) - 1) :
                      DistanceOf(docs[j].id) <= DistanceOf(docs[j + 1].id)
               /\ \A i \in (1..Len(vectorstore)) \ ids : \A j \in 1..Len(docs) :
                      DistanceOf(i) >= DistanceOf(docs[j].id)

RetrievalWitness ==
    /\ cell = "Query" /\ pc = "qa_sources"
    /\ Len(vectorstore) = 4
    /\ Len(result.source_documents) = 3
    /\ result.source_documents[1].id = 4
    /\ DistanceOf(1) > DistanceOf(2)
    /\ DistanceOf(4) < DistanceOf(3)

(***************************************************************************)
(* Properties of the source listing.                                       *)
(***************************************************************************)
\* where the answer stands in what the cell has printed
AnswerAt == CHOOSE i \in 1..Len(out) : out[i].kind = "answer"

\* the label line printed for the i-th source
SourceLabel(i) == out[AnswerAt + 2 * i - 1]

IsMarkerLine(line) == \E n \in 1..(MaxPages + 1) : line = MarkerLine(n)

\* the line the Query Engine parses, splitlines()[1], is a page marker
ParsedLineIsMarker(content) ==
    HasSecondLine(content) /\ IsMarkerLine(SecondLine(content))

\* the page number of the marker line a text begins with, 0 when it begins
\* with none
LeadingPage(content) ==
    LET ns == {n \in 1..(MaxPages + 1) :
                  /\ MatchAt(content, MarkerLine(n), 1)
                  /\ \/ Len(content) = Len(MarkerLine(n))
                     \/ content[Len(MarkerLine(n)) + 1] = "\n"}
    IN  IF ns = {} THEN 0 ELSE CHOOSE n \in ns : TRUE

\* the Query Engine has printed the answer and ended
Answered == RunEnded("Query") /\ Printed("answer")

\* every retrieved source is listed after the answer, and nothing else
AllSourcesListed ==
    /\ ~Printed("unexpected")
    /\ Len(out) = AnswerAt + 2 * Len(result.source_documents)
    /\ \A i \in 1..Len(result.source_documents) : SourceLabel(i).kind = "source"

\* C11: once the answer is printed every retrieved source is listed and the
\* run does not report a failure; a source whose parsed line is not a page
\* marker is labelled "(Page number not found)".
UnmarkedSourceNotFound ==
    Answered
        => /\ AllSourcesListed
           /\ \A i \in 1..Len(result.source_documents) :
                  ~ParsedLineIsMarker(result.source_documents[i].page_content)
                      => SourceLabel(i).arg = "Page number not found"

\* what the Query Engine has printed once its three loads have succeeded
LoadsDone ==
    /\ Len(out) >= 3
    /\ SubSeq(out, 1, 3) = <<Msg("info", "loading"), Msg("info", "index loaded"),
                             Msg("info", "chain ready")>>

\* the run of the Query Engine ended on a failed load
LoadFailed ==
    /\ RunEnded("Query")
    /\ out # <<>>
    /\ out[Len(out)] \in {Msg("unexpected", ModelLoadError.msg),
                          Msg("unexpected", FaissReadError.msg)}

\* C12: the Query Engine is at or past the submission of the question only
\* with the embedding model, the index and the generation model loaded, the
\* index being the one on disk; a run in which a load fails ends with the
\* unexpected-failure message as its only report, without having reached
\* the question, and prints no answer and no source.
QuestionAfterLoads ==
    /\ (cell = "Query" /\ (pc \in {"qa_invoke", "qa_answer", "qa_sources"}
                              \/ Printed("answer") \/ Printed("source")))
          => /\ LoadsDone
             /\ faiss_index.exists /\ vectorstore = faiss_index.data
    /\ LoadFailed
          => /\ ~LoadsDone
             /\ ~Printed("answer") /\ ~Printed("source")
             /\ \A i \in 1..(Len(out) - 1) : out[i].kind = "info"
             /\ Snapshot = pre

\* a run that fails on the generation model, after a run that answered
QuestionAfterLoadsWitness ==
    /\ LoadFailed
    /\ out = <<Msg("info", "loading"), Msg("info", "index loaded"),
               Msg("unexpected", ModelLoadError.msg)>>
    /\ result.result # <<>>
    /\ "Query" \in reported

\* the document at pdf_path opens and every page of it loads
Readable(d) ==
    d.exists /\ d.valid /\ \A i \in 1..Len(d.pages) : d.pages[i].ok

\* C13: the Extractor comes to write its file only with every page of the
\* document extracted, and until then has not touched the file; a run on a
\* document that does not open, or a page of which does not load, ends by
\* reporting a failure with the file as it was before the run, be it absent
\* or holding the text of an earlier run.
ExtractorWritesWholeText ==
    /\ (cell = "Extractor" /\ pc = "ext_write")
          => /\ Readable(pdf)
             /\ page_num = num_pages
             /\ full_text = PagesText(pdf.pages, num_pages)
    /\ (cell = "Extractor" /\ pc \in {"ext_page", "ext_write"})
          => text_file = pre.text_file
    /\ (RunEnded("Extractor") /\ ~Readable(pdf))
          => /\ RunFailed /\ ~Printed("success")
             /\ text_file = pre.text_file
    /\ (RunEnded("Extractor") /\ Readable(pdf))
          => text_file = File(PagesText(pdf.pages, num_pages))

\* the second page of a document fails to load, in a run after one that
\* wrote the text of another document
ExtractorWritesWholeTextWitness ==
    /\ RunEnded("Extractor") /\ RunFailed
    /\ num_pages = 2
    /\ pdf.exists /\ pdf.valid
    /\ pdf.pages[1].ok /\ ~pdf.pages[2].ok
    /\ text_file.exists /\ text_file.data # <<>>
    /\ text_file.data # Marker(1) \o pdf.pages[1].text

\* C14: a retrieved source whose text begins with the marker line of page N
\* is labelled "(from Page N)".
LeadingMarkerPageReported ==
    Answered
        => \A i \in 1..Len(result.source_documents) :
               LET n == LeadingPage(result.source_documents[i].page_content)
               IN  n # 0 => /\ SourceLabel(i).arg = "from Page"
                            /\ SourceLabel(i).text = Decimal(n)

\* C15: when the Query Engine has the answer, the index it loaded is built
\* from the chunks on disk, these are the chunks of the text on disk, and
\* that text is the text of the document now at pdf_path.
AnswerFromCurrentDocument ==
    (cell = "Query" /\ pc = "qa_sources")
        => /\ chunks_file.exists
           /\ vectorstore = BuildIndex(chunks_file.data, embedding)
           /\ text_file.exists
           /\ chunks_file.data = split_text(text_file.data, chunk_size, chunk_overlap)
           /\ Readable(pdf)
           /\ text_file.data = PagesText(pdf.pages, num_pages)

====
